---- MODULE Spec2Model ----
(***************************************************************************)
(* The tile pipeline of wplace-tomsk: fetch -> assemble -> gate -> crop -> *)
(* scale -> save, in its two script variants:                              *)
(*   "main"  : main.py, download_and_crop_area (thread pool, any bbox)     *)
(*   "merge" : download_and_merge_tiles.py, create_merged_image + main     *)
(*             (sequential, fixed 3x3 grid)                                *)
(* Rasters are modelled at sample pixels: every tile served in a run is a  *)
(* solid colour of its own, the canvas is observed at the corner pixels of *)
(* each grid cell.                                                         *)
(***************************************************************************)
EXTENDS Integers, Sequences, FiniteSets, TLC

VARIABLES
    variant,                  \* which script runs: "main" or "merge"
    pc,                       \* position of the orchestrating thread
    args,                     \* tl_x, tl_y, br_x, br_y of download_and_crop_area
    px_args,                  \* tl_px_x, tl_px_y, br_px_x, br_px_y (read in step 3 only)
    served,                   \* format of the rasters the tile server answers with
    tile_coords_to_download,  \* rows of tile coordinates (main.py step 1)
    tasks,                    \* one download_image invocation per tile request
    idx,                      \* merge: position of the (row, col) loop, 1..9
    merged_image,             \* the canvas
    failed_tiles,             \* list of failed tiles, in the order they were reported
    successful_tiles,         \* counter of pasted tiles
    crop_box,                 \* (left, upper, right, lower) of step 3
    cropped_image,            \* result of merged_image.crop
    SCALE_FACTOR,             \* config.SCALE_FACTOR (main) / FINAL_SIZE // ORIGINAL_SIZE (merge)
    scaled_image,             \* result of resize
    save_calls,               \* how often save_image was called
    saved_path,               \* whether save_image wrote the file ("path") or returned None
    ret,                      \* what the entry point returned: "", "True", "False", "raised"
    output_exists,            \* organize_tiles.py: whether the directory output exists
    fs,                       \* the files under output: [dir, name, id]
    org_pc,                   \* position of organize_tiles
    tile_files,               \* the image files glob found, in glob's order
    files_by_date,            \* list of [date, files], in order of first appearance
    files_without_date,       \* list of files whose name holds no date
    org_at,                   \* <<group, file>> the move loops are at
    moved_count,              \* files moved in the current group
    total_moved,              \* files moved in the run
    readmes,                  \* date folders whose README.md was written
    run_no,                   \* which run of organize_tiles this is
    fs_at_start               \* the files when the run started

\* the state of organize_tiles.py
org_vars == <<output_exists, fs, org_pc, tile_files, files_by_date, files_without_date,
              org_at, moved_count, total_moved, readmes, run_no, fs_at_start>>

\* the state of the two pipeline scripts
pipeline_vars ==
    <<variant, pc, args, px_args, served, tile_coords_to_download, tasks, idx,
      merged_image, failed_tiles, successful_tiles, crop_box, cropped_image,
      SCALE_FACTOR, scaled_image, save_calls, saved_path, ret>>

vars == <<pipeline_vars, org_vars>>

----------------------------------------------------------------------------
(* Bounds of the model *)

\* tile coordinates of the bounding box are drawn from 0..MaxTile
MaxTile == 1
\* config.SCALE_FACTOR is drawn from 1..MaxScale
MaxScale == 2
\* main.py: grids of more than MaxMixed tiles are run against the standard
\* answer format only, smaller ones against every format of ServedFormats
MaxMixed == 2
\* organize_tiles.py: output holds at most MaxFiles files when the first run starts
MaxFiles == 2
\* organize_tiles.py is run MaxRuns times in a row
MaxRuns == 2

(* Program constants *)

\* download_image(url, timeout=30, retries=5, backoff_seconds=1.5)
retries == 5
\* backoff_seconds=1.5, in tenths of a second
backoff_seconds == 15
\* edge of a tile: the literal 1000 of main.py, TILE_SIZE of the merge script
TILE_SIZE == 1000
GRID_SIZE == 3
ORIGINAL_SIZE == TILE_SIZE * GRID_SIZE
FINAL_SIZE == 9000

\* pixel offsets a caller may pass: inside the tile, on its edge, outside it
PixelOffsets == {-100, 0, 500, 1500}

\* what the server may answer with in a run: raster edge, mode, alpha of its pixels
ServedFormats ==
    { [size |-> <<TILE_SIZE, TILE_SIZE>>, mode |-> "RGBA", alpha |-> 255],
      [size |-> <<TILE_SIZE, TILE_SIZE>>, mode |-> "RGBA", alpha |-> 128],
      [size |-> <<TILE_SIZE, TILE_SIZE>>, mode |-> "RGBA", alpha |-> 0],
      [size |-> <<TILE_SIZE, TILE_SIZE>>, mode |-> "RGB",  alpha |-> 255],
      [size |-> <<1500, 1500>>, mode |-> "RGBA", alpha |-> 255] }

----------------------------------------------------------------------------
(* Rasters *)

NoImage == [size |-> <<0, 0>>, mode |-> "", px |-> <<0, 0, 0, 0>>]
NoCanvas == [size |-> <<0, 0>>, px |-> [pt \in {} |-> <<0, 0, 0, 0>>]]
NoBox == <<0, 0, 0, 0>>
\* the pixel offsets before step 3 reads them (-1 is no offset of the model)
NoPx == [tl_px_x |-> -1, tl_px_y |-> -1, br_px_x |-> -1, br_px_y |-> -1]

\* The solid colour of the tile the server holds at (x, y): distinct per tile.
TileColour(x, y) == <<40 * ((x % 3) + 1), 40 * ((y % 3) + 1), 200>>

\* The raster Image.open decodes from a good answer for tile (x, y).
DecodedImage(x, y) ==
    [size |-> served.size, mode |-> served.mode,
     px |-> IF served.mode = "RGBA"
            THEN TileColour(x, y) \o <<served.alpha>>
            ELSE TileColour(x, y)]

\* Image.convert('RGBA') of an RGB raster: alpha 255 is added.
ConvertRGBA(img) ==
    IF img.mode = "RGBA" THEN img
    ELSE [img EXCEPT !.mode = "RGBA", !.px = <<img.px[1], img.px[2], img.px[3], 255>>]

\* Pillow's DIV255: (a + 128 + ((a + 128) >> 8)) >> 8, i.e. round(a / 255)
DIV255(a) == LET tmp == a + 128 IN ((tmp \div 256) + tmp) \div 256

\* Pillow's paste with an RGBA mask, per pixel: every band of the destination,
\* alpha included, is blended with the source by the mask's alpha.
BlendPixel(out, in, mask) ==
    [i \in 1..4 |-> DIV255(out[i] * (255 - mask[4]) + in[i] * mask[4])]

\* sample pixels of a canvas of gx x gy tiles: the corners of every cell
SamplePoints(gx, gy) ==
    { <<c * TILE_SIZE + o, r * TILE_SIZE + p>> :
        c \in 0..(gx - 1), o \in {0, TILE_SIZE - 1},
        r \in 0..(gy - 1), p \in {0, TILE_SIZE - 1} }

\* Image.new('RGBA', (gx * 1000, gy * 1000), (0, 0, 0, 0))
NewCanvas(gx, gy) ==
    [size |-> <<gx * TILE_SIZE, gy * TILE_SIZE>>,
     px |-> [pt \in SamplePoints(gx, gy) |-> <<0, 0, 0, 0>>]]

\* merged_image.paste(tile, (x, y), tile): the tile is its own mask; pixels of
\* the tile that fall outside the canvas are clipped.
Paste(canvas, tile, x, y) ==
    [canvas EXCEPT !.px =
        [pt \in DOMAIN canvas.px |->
            IF /\ x <= pt[1] /\ pt[1] < x + tile.size[1]
               /\ y <= pt[2] /\ pt[2] < y + tile.size[2]
            THEN BlendPixel(canvas.px[pt], tile.px, tile.px)
            ELSE canvas.px[pt]]]

----------------------------------------------------------------------------
(* download_image: one invocation per tile request *)

\* (mutant of AttemptRange: range(1, retries + 2), one attempt too many)
AttemptRangeOneMore == 1..(retries + 1)

\* for attempt in range(1, retries + 1)
AttemptRange == 1..retries

\* if attempt < retries: time.sleep(backoff_seconds * attempt)
SleepsAfter(attempt) == attempt < retries

\* (mutant of SleepSeconds: the same pause after every failed attempt)
SleepSecondsFlat(attempt) == backoff_seconds

\* time.sleep(backoff_seconds * attempt), in tenths of a second
SleepSeconds(attempt) == backoff_seconds * attempt

\* how one attempt can end: a decoded image, requests.get raising (timeout,
\* connection), raise_for_status raising (non-2xx), Image.open/load raising
AttemptOutcomes == {"ok", "network", "status", "decode"}

\* a submitted, not yet running invocation for tile (x, y)
NewTask(x, y) ==
    [x |-> x, y |-> y, pc |-> "queued", attempt |-> 0, last_error |-> "",
     calls |-> 0, fails |-> 0, slept |-> <<>>, result |-> "", image |-> NoImage,
     handled |-> ""]

\* logger.error(...); return None  -- the frame's locals go with the frame
ReturnNone(t) ==
    [t EXCEPT !.pc = "returned", !.result = "None", !.attempt = 0, !.last_error = ""]

\* return image
ReturnImage(t) ==
    [t EXCEPT !.pc = "returned", !.result = "image", !.image = DecodedImage(t.x, t.y),
              !.attempt = 0, !.last_error = ""]

\* (mutant of Iterate: the loop starts over when its range is exhausted)
IterateAgain(t, a) ==
    IF a \in AttemptRange
    THEN [t EXCEPT !.pc = "io", !.attempt = a, !.calls = a]
    ELSE [t EXCEPT !.pc = "io", !.attempt = 1, !.calls = 1, !.fails = 0, !.slept = <<>>]

\* the for loop moves to attempt a, or ends: requests.get is called once per iteration
Iterate(t, a) ==
    IF a \in AttemptRange
    THEN [t EXCEPT !.pc = "io", !.attempt = a, !.calls = t.calls + 1]
    ELSE ReturnNone(t)

\* (mutant of Caught: the except clause gives up at once instead of retrying)
CaughtGivesUp(t, outcome) ==
    ReturnNone([t EXCEPT !.last_error = "e", !.fails = t.fails + 1])

\* an except clause ran for the current attempt: both clauses set last_error = e
\* and log a warning (the model keeps that an error was caught, not its class);
\* slept lists the pauses the invocation has entered so far
Caught(t, outcome) ==
    LET u == [t EXCEPT !.last_error = "e", !.fails = t.fails + 1]
    IN  IF SleepsAfter(t.attempt)
        THEN [u EXCEPT !.pc = "sleep", !.slept = Append(@, SleepSeconds(t.attempt))]
        ELSE Iterate(u, t.attempt + 1)

\* the caller has the return value and has dealt with it ("pasted", "failed",
\* or "raised" when converting or pasting raised); the invocation's counters go
Taken(t, how) ==
    [t EXCEPT !.pc = "taken", !.calls = 0, !.fails = 0, !.slept = <<>>, !.handled = how]

\* (mutant of ReportFailed: the list is overwritten, as by a racing writer)
ReportOverwrite(failed, t) == << <<t.x, t.y>> >>

\* (mutant of ReportFailed: only the first failure is kept)
ReportFirstOnly(failed, t) == IF failed = <<>> THEN << <<t.x, t.y>> >> ELSE failed

\* failed_tiles.append(url); the url is the tile's (x, y) in BASE_URL
ReportFailed(failed, t) == Append(failed, <<t.x, t.y>>)

\* (mutant of HasFailures: a single failed tile is let through)
HasFailuresButOne(failed) == Len(failed) > 1

\* if failed_tiles:
HasFailures(failed) == failed # <<>>

\* (mutant of AllCollected: the loop is left at the first reported failure)
AllCollectedOrFailed ==
    \/ \E i \in DOMAIN tasks : tasks[i].pc = "taken" /\ tasks[i].result = "None"
    \/ \A i \in DOMAIN tasks : tasks[i].pc = "taken"

\* as_completed has yielded every future
AllCollected == \A i \in DOMAIN tasks : tasks[i].pc = "taken"

\* (mutant of Runnable: a pool of one worker, held by a task until it returns)
RunnableOneWorker(i) ==
    /\ pc \in {"collect", "m_loop"}
    /\ variant = "merge" => i = idx
    /\ \A j \in DOMAIN tasks : j # i => tasks[j].pc \notin {"io", "sleep"}

\* the thread that runs task i may take a step: the pool of main.py lives while
\* the orchestrator collects; the merge script calls download_image in its loop
Runnable(i) ==
    \/ variant = "main" /\ pc = "collect"
    \/ variant = "merge" /\ pc = "m_loop" /\ i = idx

\* a worker of the pool (max_workers = total_tiles) picks the task up
StartTask(i) ==
    /\ Runnable(i)
    /\ tasks[i].pc = "queued"
    /\ tasks' = [tasks EXCEPT ![i] = Iterate(@, 1)]
    /\ UNCHANGED <<org_vars, variant, pc, args, px_args, served, tile_coords_to_download, idx,
                   merged_image, failed_tiles, successful_tiles, crop_box,
                   cropped_image, SCALE_FACTOR, scaled_image, save_calls,
                   saved_path, ret>>

\* the attempt in flight ends
Respond(i) ==
    /\ Runnable(i)
    /\ tasks[i].pc = "io"
    /\ \E outcome \in AttemptOutcomes :
          tasks' = [tasks EXCEPT ![i] =
                        IF outcome = "ok" THEN ReturnImage(@) ELSE Caught(@, outcome)]
    /\ UNCHANGED <<org_vars, variant, pc, args, px_args, served, tile_coords_to_download, idx,
                   merged_image, failed_tiles, successful_tiles, crop_box,
                   cropped_image, SCALE_FACTOR, scaled_image, save_calls,
                   saved_path, ret>>

\* time.sleep returns
Wake(i) ==
    /\ Runnable(i)
    /\ tasks[i].pc = "sleep"
    /\ tasks' = [tasks EXCEPT ![i] = Iterate(@, @.attempt + 1)]
    /\ UNCHANGED <<org_vars, variant, pc, args, px_args, served, tile_coords_to_download, idx,
                   merged_image, failed_tiles, successful_tiles, crop_box,
                   cropped_image, SCALE_FACTOR, scaled_image, save_calls,
                   saved_path, ret>>

----------------------------------------------------------------------------
(* main.py: download_and_crop_area *)

\* a raster derived from the canvas: its size, the canvas pixel its pixel (0, 0)
\* shows (at), and the size of the raster it was resampled from (src)
NoRaster == [made |-> FALSE, size |-> <<0, 0>>, at |-> <<0, 0>>, src |-> <<0, 0>>]

\* (mutant of Range: range(a, b), the last tile is left out)
RangeExclusive(a, b) == [k \in 1..(b - a) |-> a + k - 1]

\* list(range(a, b + 1))
Range(a, b) == [k \in 1..(b - a + 1) |-> a + k - 1]

\* step 1: one row per y in range(tl_y, br_y + 1), one entry per x in range(tl_x, br_x + 1)
EnumerateTiles(tl_x, tl_y, br_x, br_y) ==
    [r \in DOMAIN Range(tl_y, br_y) |->
        [c \in DOMAIN Range(tl_x, br_x) |->
            [x |-> Range(tl_x, br_x)[c], y |-> Range(tl_y, br_y)[r]]]]

grid_size_y == Len(tile_coords_to_download)
grid_size_x == Len(tile_coords_to_download[1])
total_tiles == grid_size_x * grid_size_y

\* for row in tile_coords_to_download for tile in row: one submit per entry
SubmitAll(rows) ==
    [k \in 1..(Len(rows) * Len(rows[1])) |->
        LET r == ((k - 1) \div Len(rows[1])) + 1
            c == ((k - 1) % Len(rows[1])) + 1
        IN  NewTask(rows[r][c].x, rows[r][c].y)]

\* steps 1: the list of tiles; an empty list is reported and ends the run
Enumerate ==
    /\ variant = "main" /\ pc = "start"
    /\ tile_coords_to_download' =
           EnumerateTiles(args.tl_x, args.tl_y, args.br_x, args.br_y)
    /\ IF tile_coords_to_download' = <<>>
       THEN pc' = "done" /\ ret' = "False"
       ELSE pc' = "setup" /\ ret' = ret
    /\ UNCHANGED <<org_vars, variant, args, px_args, served, tasks, idx, merged_image,
                   failed_tiles, successful_tiles, crop_box, cropped_image,
                   SCALE_FACTOR, scaled_image, save_calls, saved_path>>

\* step 2, before the loop: the canvas, the pool and the submits.
\* ThreadPoolExecutor(max_workers=0) raises ValueError, which nothing catches.
Submit ==
    /\ variant = "main" /\ pc = "setup"
    /\ merged_image' = NewCanvas(grid_size_x, grid_size_y)
    /\ failed_tiles' = <<>>
    /\ successful_tiles' = 0
    /\ IF total_tiles <= 0
       THEN pc' = "done" /\ ret' = "raised" /\ tasks' = tasks
       ELSE pc' = "collect" /\ ret' = ret
            /\ tasks' = SubmitAll(tile_coords_to_download)
    /\ UNCHANGED <<org_vars, variant, args, px_args, served, tile_coords_to_download, idx,
                   crop_box, cropped_image, SCALE_FACTOR, scaled_image,
                   save_calls, saved_path>>

\* the body of "for future in as_completed(...)" for one completed future
Collect(i) ==
    /\ variant = "main" /\ pc = "collect"
    /\ tasks[i].pc = "returned"
    /\ IF tasks[i].result = "image"
       THEN LET col_index == tasks[i].x - args.tl_x
                row_index == tasks[i].y - args.tl_y
                paste_x == col_index * 1000
                paste_y == row_index * 1000
                tile_image == ConvertRGBA(tasks[i].image)
            IN  \/ /\ merged_image' = Paste(merged_image, tile_image, paste_x, paste_y)
                   /\ successful_tiles' = successful_tiles + 1
                   /\ failed_tiles' = failed_tiles
                   /\ tasks' = [tasks EXCEPT ![i] = Taken(@, "pasted")]
                \* except Exception as e: convert or paste raised
                \/ /\ failed_tiles' = ReportFailed(failed_tiles, tasks[i])
                   /\ tasks' = [tasks EXCEPT ![i] = Taken(@, "raised")]
                   /\ UNCHANGED <<merged_image, successful_tiles>>
       ELSE /\ failed_tiles' = ReportFailed(failed_tiles, tasks[i])
            /\ tasks' = [tasks EXCEPT ![i] = Taken(@, "failed")]
            /\ UNCHANGED <<merged_image, successful_tiles>>
    /\ UNCHANGED <<org_vars, variant, pc, args, px_args, served, tile_coords_to_download, idx,
                   crop_box, cropped_image, SCALE_FACTOR, scaled_image,
                   save_calls, saved_path, ret>>

\* as_completed is exhausted, the pool is shut down; if failed_tiles: return False
Gate ==
    /\ variant = "main" /\ pc = "collect"
    /\ AllCollected
    /\ IF HasFailures(failed_tiles)
       THEN pc' = "done" /\ ret' = "False"
       ELSE pc' = "crop" /\ ret' = ret
    /\ UNCHANGED <<org_vars, variant, args, px_args, served, tile_coords_to_download, tasks,
                   idx, merged_image, failed_tiles, successful_tiles, crop_box,
                   cropped_image, SCALE_FACTOR, scaled_image, save_calls, saved_path>>

\* (mutant of CropBox: the bottom-right tile counted as a whole tile more)
CropBoxTileMore(tl_x, tl_y, br_x, br_y, p) ==
    << p.tl_px_x,
       p.tl_px_y,
       (br_x - tl_x + 1) * 1000 + p.br_px_x,
       (br_y - tl_y + 1) * 1000 + p.br_px_y >>

\* step 3: left, upper, right, lower
CropBox(tl_x, tl_y, br_x, br_y, p) ==
    << p.tl_px_x,
       p.tl_px_y,
       (br_x - tl_x) * 1000 + p.br_px_x,
       (br_y - tl_y) * 1000 + p.br_px_y >>

\* Pillow refuses a box whose right is left of its left, or lower above upper
CropRefused(box) == box[3] < box[1] \/ box[4] < box[2]

\* Image.crop(box): the size is that of the box (pixels outside the image are
\* transparent); a Pillow without the check clamps a negative extent to 0
Crop(box) ==
    [made |-> TRUE,
     size |-> << IF box[3] < box[1] THEN 0 ELSE box[3] - box[1],
                 IF box[4] < box[2] THEN 0 ELSE box[4] - box[2] >>,
     at |-> <<box[1], box[2]>>,
     src |-> << IF box[3] < box[1] THEN 0 ELSE box[3] - box[1],
                IF box[4] < box[2] THEN 0 ELSE box[4] - box[2] >>]

\* the end-to-end scenario of the specification: tiles (10, 20) and (11, 20),
\* pixels (500, 500) and (200, 300)
ScenarioBox == [tl_x |-> 10, tl_y |-> 20, br_x |-> 11, br_y |-> 20]
ScenarioPx == [tl_px_x |-> 500, tl_px_y |-> 500, br_px_x |-> 200, br_px_y |-> 300]

PixelArgs ==
    [tl_px_x : PixelOffsets, tl_px_y : PixelOffsets,
     br_px_x : PixelOffsets, br_px_y : PixelOffsets] \cup {ScenarioPx}

\* step 3. The pixel offsets are arguments like the tile coordinates; nothing
\* reads them before this step, where the model draws them.
CropStep ==
    /\ variant = "main" /\ pc = "crop"
    /\ \E p \in PixelArgs :
          /\ px_args' = p
          /\ crop_box' = CropBox(args.tl_x, args.tl_y, args.br_x, args.br_y, p)
    /\ \/ /\ CropRefused(crop_box')          \* ValueError, which nothing catches
          /\ pc' = "done" /\ ret' = "raised"
          /\ cropped_image' = cropped_image
       \/ /\ pc' = "scale" /\ ret' = ret     \* (an older Pillow when the box is refused)
          /\ cropped_image' = Crop(crop_box')
    /\ UNCHANGED <<org_vars, variant, args, served, tile_coords_to_download, tasks, idx,
                   merged_image, failed_tiles, successful_tiles, SCALE_FACTOR,
                   scaled_image, save_calls, saved_path>>

\* Image.resize(size, NEAREST): a copy when the size is the image's own,
\* ValueError when a side of the new size is below 1
ResizeRefused(img, size) == img.size # size /\ (size[1] < 1 \/ size[2] < 1)

\* (mutant of SourceCoord: the source coordinate is rounded, not truncated)
SourceCoordRounded(x, dst, src) == ((2 * x + 1) * src + dst) \div (2 * dst)

\* NEAREST: output coordinate x of a side resampled from src to dst pixels reads
\* source coordinate floor((x + 0.5) * src / dst)
SourceCoord(x, dst, src) == ((2 * x + 1) * src) \div (2 * dst)

Resize(img, size) == [made |-> TRUE, size |-> size, at |-> img.at, src |-> img.size]

\* the pixel (i, j) of a raster reads this pixel of the raster it was made from
SourceOf(img, i, j) ==
    << SourceCoord(i, img.size[1], img.src[1]), SourceCoord(j, img.size[2], img.src[2]) >>

\* the canvas point a raster's pixel (i, j) shows
CanvasPoint(img, i, j) ==
    << img.at[1] + SourceOf(img, i, j)[1], img.at[2] + SourceOf(img, i, j)[2] >>

\* the point lies on the canvas
OnCanvas(canvas, pt) ==
    /\ 0 <= pt[1] /\ pt[1] < canvas.size[1]
    /\ 0 <= pt[2] /\ pt[2] < canvas.size[2]

\* the value of the canvas at a point: crop fills what lies outside the canvas
\* with transparent black (used at sample points and outside the canvas)
CanvasPixel(canvas, pt) ==
    IF pt \in DOMAIN canvas.px THEN canvas.px[pt] ELSE <<0, 0, 0, 0>>

\* step 4. SCALE_FACTOR is a value of the configuration.
ScaleStep ==
    /\ variant = "main" /\ pc = "scale"
    /\ \E s \in 1..MaxScale : SCALE_FACTOR' = s
    /\ LET final_size == << cropped_image.size[1] * SCALE_FACTOR',
                            cropped_image.size[2] * SCALE_FACTOR' >>
       IN  IF ResizeRefused(cropped_image, final_size)
           THEN pc' = "done" /\ ret' = "raised" /\ scaled_image' = scaled_image
           ELSE pc' = "save" /\ ret' = ret
                /\ scaled_image' = Resize(cropped_image, final_size)
    /\ UNCHANGED <<org_vars, variant, args, px_args, served, tile_coords_to_download, tasks,
                   idx, merged_image, failed_tiles, successful_tiles, crop_box,
                   cropped_image, save_calls, saved_path>>

\* save_image(image): the path it wrote, or None when anything in it raised
SaveOutcomes == {"path", "None"}

\* step 5: save_image(scaled_image); return True
SaveStep ==
    /\ variant = "main" /\ pc = "save"
    /\ save_calls' = save_calls + 1
    /\ \E out \in SaveOutcomes : saved_path' = out
    /\ pc' = "done" /\ ret' = "True"
    /\ UNCHANGED <<org_vars, variant, args, px_args, served, tile_coords_to_download, tasks,
                   idx, merged_image, failed_tiles, successful_tiles, crop_box,
                   cropped_image, SCALE_FACTOR, scaled_image>>

----------------------------------------------------------------------------
(* download_and_merge_tiles.py: create_merged_image and main *)

\* TILE_URLS[row][col], rows and columns counted from 0
TILE_URLS(row, col) == [x |-> 1506 + col, y |-> 631 + row]

\* the (row, col) the nested loops are at in their idx-th iteration
LoopRow(k) == (k - 1) \div GRID_SIZE
LoopCol(k) == (k - 1) % GRID_SIZE

\* RGBA -> RGBa and back, as Pillow does around a filtered resize of an RGBA image
Premultiply(p) == <<DIV255(p[1] * p[4]), DIV255(p[2] * p[4]), DIV255(p[3] * p[4]), p[4]>>
Unpremultiply(p) ==
    IF p[4] = 255 \/ p[4] = 0 THEN p
    ELSE LET clip(v) == IF v > 255 THEN 255 ELSE v
         IN  << clip((255 * p[1]) \div p[4]), clip((255 * p[2]) \div p[4]),
                clip((255 * p[3]) \div p[4]), p[4] >>

\* if tile.size != (TILE_SIZE, TILE_SIZE): tile = tile.resize(..., LANCZOS)
\* (a solid raster stays solid; an RGBA one goes through premultiplied alpha)
ResizeTile(tile) ==
    IF tile.size # <<TILE_SIZE, TILE_SIZE>>
    THEN [tile EXCEPT !.size = <<TILE_SIZE, TILE_SIZE>>,
                      !.px = IF tile.mode = "RGBA"
                             THEN Unpremultiply(Premultiply(tile.px))
                             ELSE tile.px]
    ELSE tile

\* the canvas and the counters of create_merged_image; the nine calls to come
MergeStart ==
    /\ variant = "merge" /\ pc = "m_start"
    /\ merged_image' = NewCanvas(GRID_SIZE, GRID_SIZE)
    /\ failed_tiles' = <<>>
    /\ successful_tiles' = 0
    /\ tasks' = [k \in 1..(GRID_SIZE * GRID_SIZE) |->
                    NewTask(TILE_URLS(LoopRow(k), LoopCol(k)).x,
                            TILE_URLS(LoopRow(k), LoopCol(k)).y)]
    /\ idx' = 1
    /\ pc' = "m_loop"
    /\ UNCHANGED <<org_vars, variant, args, px_args, served, tile_coords_to_download, crop_box,
                   cropped_image, SCALE_FACTOR, scaled_image, save_calls,
                   saved_path, ret>>

\* the loop body after download_image returned: normalise and paste, or report.
\* (Nothing in this script catches an error of resize, convert or paste, and
\* the model has none raised here: it raises one only where the program says
\* what happens then, in the loop of main.py.)
MergeTile ==
    /\ variant = "merge" /\ pc = "m_loop"
    /\ tasks[idx].pc = "returned"
    /\ LET x == LoopCol(idx) * TILE_SIZE
           y == LoopRow(idx) * TILE_SIZE
           tile == ConvertRGBA(ResizeTile(tasks[idx].image))
       IN  IF tasks[idx].result = "image"
           THEN /\ merged_image' = Paste(merged_image, tile, x, y)
                /\ successful_tiles' = successful_tiles + 1
                /\ failed_tiles' = failed_tiles
                /\ tasks' = [tasks EXCEPT ![idx] = Taken(@, "pasted")]
           ELSE /\ failed_tiles' = ReportFailed(failed_tiles, tasks[idx])
                /\ tasks' = [tasks EXCEPT ![idx] = Taken(@, "failed")]
                /\ UNCHANGED <<merged_image, successful_tiles>>
    /\ IF idx < GRID_SIZE * GRID_SIZE
       THEN idx' = idx + 1 /\ pc' = pc
       ELSE idx' = idx /\ pc' = "m_gate"
    /\ UNCHANGED <<org_vars, variant, args, px_args, served, tile_coords_to_download, crop_box,
                   cropped_image, SCALE_FACTOR, scaled_image, save_calls, saved_path,
                   ret>>

\* the canvas as the raster that is scaled
WholeCanvas(canvas) ==
    [made |-> TRUE, size |-> canvas.size, at |-> <<0, 0>>, src |-> canvas.size]

\* if failed_tiles: return None (main then returns False); else the scaled canvas
MergeGate ==
    /\ variant = "merge" /\ pc = "m_gate"
    /\ IF HasFailures(failed_tiles)
       THEN pc' = "done" /\ ret' = "False" /\ scaled_image' = scaled_image
       ELSE pc' = "m_save" /\ ret' = ret
            /\ scaled_image' = Resize(WholeCanvas(merged_image), <<FINAL_SIZE, FINAL_SIZE>>)
    /\ UNCHANGED <<org_vars, variant, args, px_args, served, tile_coords_to_download, tasks,
                   idx, merged_image, failed_tiles, successful_tiles, crop_box,
                   cropped_image, SCALE_FACTOR, save_calls, saved_path>>

\* main: saved_path = save_image(merged_image); True if saved_path else False
MergeSave ==
    /\ variant = "merge" /\ pc = "m_save"
    /\ save_calls' = save_calls + 1
    /\ \E out \in SaveOutcomes :
          /\ saved_path' = out
          /\ ret' = IF out = "path" THEN "True" ELSE "False"
    /\ pc' = "done"
    /\ UNCHANGED <<org_vars, variant, args, px_args, served, tile_coords_to_download, tasks,
                   idx, merged_image, failed_tiles, successful_tiles, crop_box,
                   cropped_image, SCALE_FACTOR, scaled_image>>

----------------------------------------------------------------------------
(* organize_tiles.py *)

\* A file name is stem, an optional date written in some form, the counters
\* that renames have appended to the base ("_1", "_1_1", ...) and the extension.
\* A date is the three digit groups a pattern of extract_date_from_filename captures.
NoDate == [form |-> "", year |-> 0, month |-> 0, day |-> 0]

\* the forms the four patterns match
DateForms == {"YYYYMMDD", "YYYY-MM-DD", "YYYY_MM_DD", "YYYY.MM.DD"}

\* datetime(year, month, day) does not raise ValueError
ValidDate(year, month, day) ==
    LET leap == (year % 4 = 0 /\ year % 100 # 0) \/ year % 400 = 0
        days == IF month = 2 THEN (IF leap THEN 29 ELSE 28)
                ELSE IF month \in {4, 6, 9, 11} THEN 30 ELSE 31
    IN  /\ 1 <= year /\ year <= 9999
        /\ 1 <= month /\ month <= 12
        /\ 1 <= day /\ day <= days

\* extract_date_from_filename: f"{year}{month}{day}" of the first pattern that
\* matches a valid date, else None
extract_date_from_filename(filename) ==
    IF /\ filename.date.form \in DateForms
       /\ ValidDate(filename.date.year, filename.date.month, filename.date.day)
    THEN ToString(filename.date.year * 10000 + filename.date.month * 100 + filename.date.day)
    ELSE "None"

\* the extensions of the glob patterns
ImageExts == {"png", "jpg", "jpeg", "tiff", "bmp"}

\* the names of the model
FileNames ==
    { [stem |-> "tile", date |-> [form |-> "YYYYMMDD", year |-> 2025, month |-> 1, day |-> 1],
       n |-> <<>>, ext |-> "png"],
      [stem |-> "tile", date |-> [form |-> "YYYYMMDD", year |-> 2025, month |-> 1, day |-> 1],
       n |-> <<1>>, ext |-> "png"],
      [stem |-> "tile", date |-> [form |-> "YYYY-MM-DD", year |-> 2025, month |-> 1, day |-> 1],
       n |-> <<>>, ext |-> "png"],
      [stem |-> "tile", date |-> [form |-> "YYYYMMDD", year |-> 2025, month |-> 1, day |-> 2],
       n |-> <<>>, ext |-> "jpg"],
      [stem |-> "tile", date |-> [form |-> "YYYYMMDD", year |-> 2025, month |-> 13, day |-> 1],
       n |-> <<>>, ext |-> "png"],
      [stem |-> "tile", date |-> NoDate, n |-> <<>>, ext |-> "png"],
      [stem |-> "tile", date |-> [form |-> "YYYYMMDD", year |-> 2025, month |-> 1, day |-> 1],
       n |-> <<>>, ext |-> "txt"] }

\* the directories of the model, relative to output: output itself, the folder
\* of a date, another folder
Dirs == {"", "20250101", "misc"}

\* a path under output
Path(dir, name) == [dir |-> dir, name |-> name]
PathOf(e) == Path(e.dir, e.name)
Paths(files) == { PathOf(e) : e \in files }

\* os.path.exists(path), for the files of the model
Exists(files, path) == path \in Paths(files)

\* glob.glob('output/**/<ext>', recursive=True) over the five patterns, then
\* the isfile filter: the image files, in every directory
Globbed(files) == { PathOf(e) : e \in { f \in files : f.name.ext \in ImageExts } }

\* the orders glob may list a set of paths in
Orders(S) ==
    { q \in [1..Cardinality(S) -> S] : \A a, b \in DOMAIN q : a # b => q[a] # q[b] }

\* lines 66-78: the files grouped by date in order of first appearance, and the
\* files without a date
RECURSIVE GroupByDate(_, _)
GroupByDate(files, k) ==
    IF k = 0 THEN <<>>
    ELSE LET g == GroupByDate(files, k - 1)
             date == extract_date_from_filename(files[k].name)
         IN  IF date = "None" THEN g
             ELSE IF \E j \in DOMAIN g : g[j].date = date
                  THEN [j \in DOMAIN g |->
                          IF g[j].date = date
                          THEN [g[j] EXCEPT !.files = Append(@, files[k])]
                          ELSE g[j]]
                  ELSE Append(g, [date |-> date, files |-> <<files[k]>>])

WithoutDate(files) ==
    SelectSeq(files, LAMBDA f : extract_date_from_filename(f.name) = "None")

\* lines 95-103: the destination, renamed base_1, base_2, ... while it exists
RECURSIVE Destination(_, _, _, _)
Destination(files, date_folder, filename, counter) ==
    LET destination ==
            IF counter = 0 THEN Path(date_folder, filename)
            ELSE Path(date_folder, [filename EXCEPT !.n = Append(@, counter)])
    IN  IF Exists(files, destination)
        THEN Destination(files, date_folder, filename, counter + 1)
        ELSE destination

\* shutil.move(src, dst): the file is at dst afterwards, in place of what was there
Move(files, src, dst) ==
    LET e == CHOOSE f \in files : PathOf(f) = src
    IN  { f \in files : PathOf(f) # src /\ PathOf(f) # dst }
            \cup { [dir |-> dst.dir, name |-> dst.name, id |-> e.id] }

\* the organizer is not running (the pipeline scripts run)
OrgOff ==
    /\ output_exists = FALSE
    /\ fs = {}
    /\ org_pc = "off"
    /\ tile_files = <<>>
    /\ files_by_date = <<>>
    /\ files_without_date = <<>>
    /\ org_at = <<0, 0>>
    /\ moved_count = 0
    /\ total_moved = 0
    /\ readmes = {}
    /\ run_no = 0
    /\ fs_at_start = {}

\* lines 46-85: the existence check, the glob, the grouping
OrgScan ==
    /\ org_pc = "start"
    /\ IF ~output_exists
       THEN /\ org_pc' = "done"
            /\ UNCHANGED <<tile_files, files_by_date, files_without_date, org_at>>
       ELSE \E q \in Orders(Globbed(fs)) :
              /\ tile_files' = q
              /\ IF q = <<>>
                 THEN /\ org_pc' = "done"
                      /\ UNCHANGED <<files_by_date, files_without_date, org_at>>
                 ELSE /\ files_by_date' = GroupByDate(q, Len(q))
                      /\ files_without_date' = WithoutDate(q)
                      /\ IF files_by_date' = <<>>
                         THEN org_pc' = "finish" /\ org_at' = org_at
                         ELSE org_pc' = "move" /\ org_at' = <<1, 1>>
    /\ total_moved' = 0
    /\ moved_count' = 0
    /\ UNCHANGED <<output_exists, fs, readmes, run_no, fs_at_start, pipeline_vars>>

\* lines 93-110: one file of the current date: its destination, the move
OrgMove ==
    /\ org_pc = "move"
    /\ LET date == files_by_date[org_at[1]].date
           files == files_by_date[org_at[1]].files
           tile_file == files[org_at[2]]
           destination == Destination(fs, date, tile_file.name, 0)
       IN  /\ \/ /\ Exists(fs, tile_file)
                 /\ fs' = Move(fs, tile_file, destination)
                 /\ moved_count' = moved_count + 1
              \* except Exception as e: the move raised
              \/ /\ fs' = fs
                 /\ moved_count' = moved_count
           /\ IF org_at[2] < Len(files)
              THEN org_at' = <<org_at[1], org_at[2] + 1>> /\ org_pc' = org_pc
              ELSE org_at' = org_at /\ org_pc' = "readme"
    /\ UNCHANGED <<output_exists, tile_files, files_by_date, files_without_date,
                   total_moved, readmes, run_no, fs_at_start, pipeline_vars>>

\* lines 112-124: the count and the README.md of the date folder; the next date
OrgReadme ==
    /\ org_pc = "readme"
    /\ total_moved' = total_moved + moved_count
    /\ moved_count' = 0
    /\ readmes' = readmes \cup {files_by_date[org_at[1]].date}
    /\ IF org_at[1] < Len(files_by_date)
       THEN org_at' = <<org_at[1] + 1, 1>> /\ org_pc' = "move"
       ELSE org_at' = org_at /\ org_pc' = "finish"
    /\ UNCHANGED <<output_exists, fs, tile_files, files_by_date, files_without_date,
                   run_no, fs_at_start, pipeline_vars>>

\* lines 126-134: the report; the function returns
OrgFinish ==
    /\ org_pc = "finish"
    /\ org_pc' = "done"
    /\ UNCHANGED <<output_exists, fs, tile_files, files_by_date, files_without_date,
                   org_at, moved_count, total_moved, readmes, run_no, fs_at_start,
                   pipeline_vars>>

\* the script is run again on what the run before left
OrgAgain ==
    /\ org_pc = "done"
    /\ run_no < MaxRuns
    /\ run_no' = run_no + 1
    /\ fs_at_start' = fs
    /\ org_pc' = "start"
    /\ tile_files' = <<>>
    /\ files_by_date' = <<>>
    /\ files_without_date' = <<>>
    /\ org_at' = <<0, 0>>
    /\ moved_count' = 0
    /\ total_moved' = 0
    /\ UNCHANGED <<output_exists, fs, readmes, pipeline_vars>>

----------------------------------------------------------------------------
(* The runs *)

\* the bounding boxes of the model: every corner pair within the bound, and the
\* box of the end-to-end scenario
Boxes ==
    [tl_x : 0..MaxTile, tl_y : 0..MaxTile, br_x : 0..MaxTile, br_y : 0..MaxTile]
        \cup {ScenarioBox}

\* number of tiles of a box (0 when it is empty or inverted)
TileCount(b) ==
    IF b.br_x < b.tl_x \/ b.br_y < b.tl_y THEN 0
    ELSE (b.br_x - b.tl_x + 1) * (b.br_y - b.tl_y + 1)

\* what the real server answers with
StandardFormat == [size |-> <<TILE_SIZE, TILE_SIZE>>, mode |-> "RGBA", alpha |-> 255]

Init ==
    /\ variant \in {"main", "merge"}
    /\ served \in ServedFormats
    /\ IF variant = "main"
       THEN /\ args \in Boxes
            /\ served = StandardFormat \/ TileCount(args) <= MaxMixed
            /\ pc = "start"
            /\ SCALE_FACTOR = 0
       ELSE /\ args = [tl_x |-> TILE_URLS(0, 0).x, tl_y |-> TILE_URLS(0, 0).y,
                       br_x |-> TILE_URLS(GRID_SIZE - 1, GRID_SIZE - 1).x,
                       br_y |-> TILE_URLS(GRID_SIZE - 1, GRID_SIZE - 1).y]
            /\ pc = "m_start"
            /\ SCALE_FACTOR = FINAL_SIZE \div ORIGINAL_SIZE
    /\ px_args = NoPx
    /\ tile_coords_to_download = <<>>
    /\ tasks = <<>>
    /\ idx = 0
    /\ merged_image = NoCanvas
    /\ failed_tiles = <<>>
    /\ successful_tiles = 0
    /\ crop_box = NoBox
    /\ cropped_image = NoRaster
    /\ scaled_image = NoRaster
    /\ save_calls = 0
    /\ saved_path = ""
    /\ ret = ""
    /\ OrgOff

Next ==
    \/ Enumerate
    \/ Submit
    \/ \E i \in DOMAIN tasks : StartTask(i)
    \/ \E i \in DOMAIN tasks : Respond(i)
    \/ \E i \in DOMAIN tasks : Wake(i)
    \/ \E i \in DOMAIN tasks : Collect(i)
    \/ Gate
    \/ CropStep
    \/ ScaleStep
    \/ SaveStep
    \/ MergeStart
    \/ MergeTile
    \/ MergeGate
    \/ MergeSave

Spec == Init /\ [][Next]_vars

\* every attempt ends (timeout=30), every sleep returns, and the threads are
\* scheduled: a step that can be taken is eventually taken
FairSpec == Spec /\ WF_vars(Next)

\* the directories output may hold when organize_tiles.py is first run: at
\* most MaxFiles files, each with an identity of its own (its first path)
FileSystems ==
    { { [dir |-> p.dir, name |-> p.name, id |-> p] : p \in S } :
        S \in { T \in SUBSET [dir : Dirs, name : FileNames] : Cardinality(T) <= MaxFiles } }

\* the pipeline scripts do not run
PipelineOff ==
    /\ variant = "organize"
    /\ served = StandardFormat
    /\ args = ScenarioBox
    /\ pc = "off"
    /\ SCALE_FACTOR = 0
    /\ px_args = NoPx
    /\ tile_coords_to_download = <<>>
    /\ tasks = <<>>
    /\ idx = 0
    /\ merged_image = NoCanvas
    /\ failed_tiles = <<>>
    /\ successful_tiles = 0
    /\ crop_box = NoBox
    /\ cropped_image = NoRaster
    /\ scaled_image = NoRaster
    /\ save_calls = 0
    /\ saved_path = ""
    /\ ret = ""

OrgInit ==
    /\ PipelineOff
    /\ output_exists \in BOOLEAN
    /\ fs \in FileSystems
    /\ output_exists = FALSE => fs = {}
    /\ org_pc = "start"
    /\ tile_files = <<>>
    /\ files_by_date = <<>>
    /\ files_without_date = <<>>
    /\ org_at = <<0, 0>>
    /\ moved_count = 0
    /\ total_moved = 0
    /\ readmes = {}
    /\ run_no = 1
    /\ fs_at_start = fs

OrgNext ==
    \/ OrgScan
    \/ OrgMove
    \/ OrgReadme
    \/ OrgFinish
    \/ OrgAgain

OrgSpec == OrgInit /\ [][OrgNext]_vars

----------------------------------------------------------------------------
(* Properties *)

\* tiles whose fetch ended in terminal failure (download_image returned None)
FetchFailed == { i \in DOMAIN tasks : tasks[i].result = "None" }
AnyTerminalFailure == FetchFailed # {}

\* the orchestrator has taken the decision of the Result Gate
PastGate ==
    \/ pc \in {"crop", "scale", "save", "m_gate", "m_save"}
    \/ pc = "done" /\ tasks # <<>>

\* C1 -- All-or-nothing: once a tile's fetch has ended in terminal failure the
\* run never gets past the gate: it does not return success nor raise, no
\* cropped or scaled raster is produced, save_image is never called, and when
\* the run has ended it has returned failure -- whatever the other tiles did
\* and in whatever order the outcomes arrived.
C1_AllOrNothing ==
    AnyTerminalFailure =>
        /\ ret \notin {"True", "raised"}
        /\ pc \notin {"crop", "scale", "save", "m_save"}
        /\ pc = "done" => ret = "False"
        /\ ~cropped_image.made
        /\ ~scaled_image.made
        /\ save_calls = 0
        /\ saved_path = ""

\* a run that ended in failure with one tile failed and another one pasted
C1_Witness ==
    /\ pc = "done" /\ ret = "False"
    /\ AnyTerminalFailure
    /\ successful_tiles >= 1

\* C2 -- download_image, k < retries failures and then a success: the request
\* in flight after k failed attempts is transport call k + 1, and an invocation
\* that has returned after fewer than retries failed attempts has returned the
\* decoded image, with exactly k + 1 calls of requests.get.
C2_SuccessAfterKFailures ==
    \A i \in DOMAIN tasks :
        /\ tasks[i].pc = "io" => tasks[i].calls = tasks[i].fails + 1
        /\ tasks[i].pc = "returned" /\ tasks[i].fails < retries =>
              /\ tasks[i].result = "image"
              /\ tasks[i].image = DecodedImage(tasks[i].x, tasks[i].y)
              /\ tasks[i].calls = tasks[i].fails + 1

\* four failed attempts, then the fifth one succeeded
C2_Witness ==
    \E i \in DOMAIN tasks :
        /\ tasks[i].pc = "returned" /\ tasks[i].result = "image"
        /\ tasks[i].fails = retries - 1
        /\ tasks[i].calls = retries

\* C3 -- download_image, every attempt fails: the transport is never called
\* more than retries times; the invocation returns None exactly when retries
\* attempts have failed, after exactly retries calls ...
C3_State ==
    \A i \in DOMAIN tasks :
        /\ tasks[i].calls <= retries
        /\ tasks[i].fails = retries =>
              tasks[i].pc = "returned" /\ tasks[i].result = "None"
        /\ tasks[i].pc = "returned" /\ tasks[i].result = "None" =>
              tasks[i].calls = retries /\ tasks[i].fails = retries

\* ... and an invocation that has returned never runs again: no further call
\* of the transport for that tile, and its result stays.
C3_Step ==
    \A i \in DOMAIN tasks :
        tasks[i].pc \in {"returned", "taken"} =>
            /\ tasks'[i].pc \in {"returned", "taken"}
            /\ tasks'[i].calls <= tasks[i].calls
            /\ tasks'[i].result = tasks[i].result

\* C3 -- the two parts together.
C3_ExhaustedRetries == [](C3_State) /\ [][C3_Step]_vars

\* an invocation that failed five times and returned None
C3_Witness ==
    \E i \in DOMAIN tasks :
        /\ tasks[i].pc = "returned" /\ tasks[i].result = "None"
        /\ tasks[i].calls = retries

\* C4 -- No early exit: when the orchestrator is past the gate, every
\* enumerated tile has been fetched to a terminal outcome and dealt with; no
\* tile is skipped (merge: every tile before the loop position is done), and
\* a fetch that ended in failure used all its retries whatever happened to the
\* other tiles.
C4_NoEarlyExit ==
    /\ PastGate =>
          /\ Len(tasks) = IF variant = "main" THEN total_tiles
                          ELSE GRID_SIZE * GRID_SIZE
          /\ \A i \in DOMAIN tasks :
                /\ tasks[i].pc = "taken"
                /\ tasks[i].result \in {"image", "None"}
                /\ tasks[i].handled \in {"pasted", "failed", "raised"}
    /\ variant = "merge" =>
          \A i \in DOMAIN tasks : i < idx => tasks[i].pc = "taken"
    /\ \A i \in DOMAIN tasks :
          tasks[i].pc = "returned" /\ tasks[i].result = "None" =>
              tasks[i].calls = retries

\* a 2x2 run past the gate: one tile failed, the three others were pasted
C4_Witness ==
    /\ variant = "main" /\ pc = "done"
    /\ Len(tasks) = 4
    /\ Len(failed_tiles) = 1
    /\ successful_tiles = 3

\* the tiles named in failed_tiles
Reported == { failed_tiles[k] : k \in DOMAIN failed_tiles }

\* the run has ended at the gate because of failed tiles
FailedAtGate == pc = "done" /\ ret = "False" /\ tasks # <<>> /\ save_calls = 0

\* C5 as claimed -- when the pipeline fails at the gate, failed_tiles names
\* exactly the tiles whose fetch failed terminally, each once, and no tile
\* that was fetched.
C5_AsClaimed ==
    FailedAtGate =>
        /\ Reported = { <<tasks[i].x, tasks[i].y>> : i \in FetchFailed }
        /\ Len(failed_tiles) = Cardinality(Reported)

\* tiles that were dealt with and are not on the canvas: the fetch failed, or
\* converting or pasting the fetched raster raised (main.py)
NotPasted ==
    { i \in DOMAIN tasks :
        tasks[i].pc = "taken" /\ (tasks[i].result = "None" \/ tasks[i].handled = "raised") }

\* C5 as amended -- at every moment failed_tiles names, each once, exactly the
\* tiles dealt with so far whose fetch failed terminally or whose fetched
\* raster could not be converted or pasted; when the pipeline fails at the
\* gate every tile has been dealt with, so the report is complete.
C5_CompleteReport ==
    /\ Reported = { <<tasks[i].x, tasks[i].y>> : i \in NotPasted }
    /\ Len(failed_tiles) = Cardinality(Reported)
    /\ Len(failed_tiles) = Cardinality(NotPasted)
    /\ FailedAtGate => /\ AllCollected
                       /\ FetchFailed \subseteq NotPasted
                       /\ failed_tiles # <<>>

\* a failed run whose report holds a tile that failed and one that did not paste
C5_Witness ==
    /\ FailedAtGate
    /\ \E i, j \in DOMAIN tasks :
          tasks[i].handled = "failed" /\ tasks[j].handled = "raised"

\* a box with tl <= br on both axes
ValidBox(b) == b.tl_x <= b.br_x /\ b.tl_y <= b.br_y

\* C6 -- Enumeration: for a box with tl_x <= br_x and tl_y <= br_y step 1
\* yields (br_y - tl_y + 1) rows of (br_x - tl_x + 1) coordinates, and one
\* fetch task is submitted per coordinate: (br_x - tl_x + 1) * (br_y - tl_y + 1)
\* tasks, pairwise distinct, covering exactly [tl_x..br_x] x [tl_y..br_y].
C6_Enumeration ==
    variant = "main" /\ ValidBox(args) =>
        LET w == args.br_x - args.tl_x + 1
            h == args.br_y - args.tl_y + 1
            coords == { <<tasks[i].x, tasks[i].y>> : i \in DOMAIN tasks }
        IN  /\ pc # "start" =>
                  /\ Len(tile_coords_to_download) = h
                  /\ \A r \in 1..h :
                        /\ Len(tile_coords_to_download[r]) = w
                        /\ \A c \in 1..w :
                              /\ tile_coords_to_download[r][c].x = args.tl_x + c - 1
                              /\ tile_coords_to_download[r][c].y = args.tl_y + r - 1
            /\ pc \notin {"start", "setup"} =>
                  /\ Len(tasks) = w * h
                  /\ Cardinality(coords) = w * h
                  /\ coords = (args.tl_x..args.br_x) \X (args.tl_y..args.br_y)

\* the four tasks of a 2x2 box, submitted
C6_Witness ==
    /\ variant = "main" /\ pc = "collect"
    /\ args.br_x = args.tl_x + 1 /\ args.br_y = args.tl_y + 1
    /\ Len(tasks) = 4

\* C7 as claimed -- a box that is empty or inverted on either axis makes the
\* enumeration step return a failure: no fetch task is ever created, nothing
\* is raised, and the run ends with the failure returned.
C7_AsClaimed ==
    variant = "main" /\ ~ValidBox(args) =>
        /\ tasks = <<>>
        /\ pc \in {"start", "setup", "done"}
        /\ ret \in {"", "False"}
        /\ pc = "done" => ret = "False"

\* the raster of task i as it is pasted, in RGBA
PastedTile(i) ==
    IF variant = "merge" THEN ConvertRGBA(ResizeTile(tasks[i].image))
    ELSE ConvertRGBA(tasks[i].image)

\* C8 as claimed -- Assembler invariant: for every pasted tile at grid
\* (row, col) and every observed pixel (u, v) of it, the canvas pixel at
\* (col * 1000 + u, row * 1000 + v) equals the tile's pixel in all four
\* bands, whatever the tile's alpha.
C8_AsClaimed ==
    \A i \in DOMAIN tasks :
        tasks[i].handled = "pasted" =>
            LET col == tasks[i].x - args.tl_x
                row == tasks[i].y - args.tl_y
            IN  \A u, v \in {0, TILE_SIZE - 1} :
                    merged_image.px[<<col * 1000 + u, row * 1000 + v>>]
                        = PastedTile(i).px

\* step 3 has run
CropDone == px_args # NoPx

\* C9 as claimed -- the crop rectangle is (tl_px_x, tl_px_y,
\* (br_x - tl_x) * 1000 + br_px_x, (br_y - tl_y) * 1000 + br_px_y) for every
\* box, and the cropped raster is right - left wide and lower - upper high.
C9_AsClaimed ==
    CropDone =>
        LET left == px_args.tl_px_x
            upper == px_args.tl_px_y
            right == (args.br_x - args.tl_x) * 1000 + px_args.br_px_x
            lower == (args.br_y - args.tl_y) * 1000 + px_args.br_px_y
        IN  /\ crop_box = <<left, upper, right, lower>>
            /\ cropped_image.made
            /\ cropped_image.size = <<right - left, lower - upper>>

\* C9 as amended -- the crop rectangle is as claimed for every box (for the
\* scenario it is (500, 500, 1200, 300)); the cropped raster is right - left
\* wide and lower - upper high when right >= left and lower >= upper; for any
\* other rectangle, the scenario's among them, crop raises or (a Pillow without
\* the check) yields a raster whose negative extent is 0.
C9_CropRectangle ==
    IF ~CropDone THEN crop_box = NoBox /\ ~cropped_image.made
    ELSE
        LET left == px_args.tl_px_x
            upper == px_args.tl_px_y
            right == (args.br_x - args.tl_x) * 1000 + px_args.br_px_x
            lower == (args.br_y - args.tl_y) * 1000 + px_args.br_px_y
            max0(v) == IF v < 0 THEN 0 ELSE v
        IN  /\ crop_box = <<left, upper, right, lower>>
            /\ args = ScenarioBox /\ px_args = ScenarioPx =>
                  crop_box = <<500, 500, 1200, 300>>
            /\ right >= left /\ lower >= upper =>
                  /\ cropped_image.made
                  /\ cropped_image.size = <<right - left, lower - upper>>
            /\ right < left \/ lower < upper =>
                  \/ ~cropped_image.made /\ pc = "done" /\ ret = "raised"
                  \/ /\ cropped_image.made
                     /\ cropped_image.size = <<max0(right - left), max0(lower - upper)>>

\* the scenario's rectangle, computed by step 3
C9_Witness ==
    /\ CropDone
    /\ args = ScenarioBox /\ px_args = ScenarioPx
    /\ crop_box = <<500, 500, 1200, 300>>

\* the rectangle is non-positive in a dimension or lies partly outside the canvas
BadBox(box, canvas) ==
    \/ box[3] <= box[1] \/ box[4] <= box[2]
    \/ box[1] < 0 \/ box[2] < 0
    \/ box[3] > canvas.size[1] \/ box[4] > canvas.size[2]

\* C10 as claimed -- with such a rectangle the crop step fails with a returned
\* failure: no raster is cropped, scaled or saved.
C10_AsClaimed ==
    variant = "main" /\ CropDone /\ BadBox(crop_box, merged_image) =>
        /\ pc = "done" /\ ret = "False"
        /\ ~cropped_image.made
        /\ ~scaled_image.made
        /\ save_calls = 0

\* the raster that step 4 scales
ScaleSource == IF variant = "main" THEN cropped_image ELSE WholeCanvas(merged_image)

\* source coordinates along one side of length len that the properties observe:
\* its ends and every sample column (row) of the canvas it shows
ObservedSide(len, at, canvasLen) ==
    { u \in {0, 1, len - 2, len - 1}
            \cup { c * TILE_SIZE + o - at :
                     c \in 0..((canvasLen \div TILE_SIZE) - 1), o \in {0, TILE_SIZE - 1} } :
        0 <= u /\ u < len }

\* the pixel's canvas point is one whose value the model holds
Known(img, i, j) ==
    \/ CanvasPoint(img, i, j) \in DOMAIN merged_image.px
    \/ ~OnCanvas(merged_image, CanvasPoint(img, i, j))

\* C11 -- Scale: scaling a W x H raster by the integer factor s >= 1 gives an
\* (s*W) x (s*H) raster whose pixel (i, j) is the source's pixel
\* (i div s, j div s): every s x s block is a copy of one source pixel; for
\* s = 1 the output is the input.
C11_ScaleBlocks ==
    scaled_image.made =>
        LET s == SCALE_FACTOR
            W == ScaleSource.size[1]
            H == ScaleSource.size[2]
        IN  /\ s >= 1
            /\ scaled_image.size = <<s * W, s * H>>
            /\ \A u \in ObservedSide(W, ScaleSource.at[1], merged_image.size[1]),
                  v \in ObservedSide(H, ScaleSource.at[2], merged_image.size[2]) :
                  \A di, dj \in {0, s - 1} :
                      LET i == u * s + di
                          j == v * s + dj
                      IN  /\ SourceOf(scaled_image, i, j) = <<i \div s, j \div s>>
                          /\ <<i \div s, j \div s>> = <<u, v>>
                          /\ Known(ScaleSource, u, v) =>
                                CanvasPixel(merged_image, CanvasPoint(scaled_image, i, j))
                                  = CanvasPixel(merged_image, CanvasPoint(ScaleSource, u, v))
            /\ s = 1 => scaled_image = ScaleSource

\* a raster of more than one pixel a side was scaled by a factor above 1, and a
\* pasted tile's pixel is among those it shows
C11_Witness ==
    /\ scaled_image.made
    /\ SCALE_FACTOR > 1
    /\ ScaleSource.size[1] > 1 /\ ScaleSource.size[2] > 1
    /\ \E u \in ObservedSide(ScaleSource.size[1], ScaleSource.at[1], merged_image.size[1]),
          v \in ObservedSide(ScaleSource.size[2], ScaleSource.at[2], merged_image.size[2]) :
          /\ CanvasPoint(ScaleSource, u, v) \in DOMAIN merged_image.px
          /\ CanvasPixel(merged_image, CanvasPoint(ScaleSource, u, v)) # <<0, 0, 0, 0>>

\* C12 as claimed -- download_and_crop_area always ends by returning a boolean:
\* no run of main.py ends with an error escaping it, whatever the box, the
\* pixel offsets and the outcomes of the fetches.
C12_AsClaimed == variant = "main" => ret # "raised"

\* the pauses a download_image invocation has entered after n failed attempts
Schedule(n) == [k \in 1..n |-> backoff_seconds * k]

\* C13 -- Backoff schedule: an invocation of download_image that has failed
\* attempts 1..a sleeps backoff_seconds * a after attempt a when a < retries,
\* before attempt a + 1 starts (1.5 s, 3 s, 4.5 s, 6 s for 5 attempts); it does
\* not sleep after a successful attempt nor after the last failed one, so it
\* sleeps at most retries - 1 times.
C13_BackoffSchedule ==
    \A i \in DOMAIN tasks :
        LET t == tasks[i]
        IN  t.pc # "taken" =>
                /\ Len(t.slept) <= retries - 1
                /\ t.slept = Schedule(IF t.fails < retries THEN t.fails ELSE retries - 1)
                /\ t.pc = "sleep" =>
                      /\ t.attempt < retries
                      /\ t.fails = t.attempt
                      /\ t.slept[Len(t.slept)] = backoff_seconds * t.attempt
                /\ t.pc = "io" => t.fails = t.attempt - 1 /\ Len(t.slept) = t.attempt - 1
                /\ t.result = "image" => Len(t.slept) = t.calls - 1 /\ t.fails = t.calls - 1
                /\ t.result = "None" => t.fails = retries /\ t.slept = <<15, 30, 45, 60>>

\* an invocation failed all its attempts and slept 1.5, 3, 4.5 and 6 seconds
C13_Witness ==
    \E i \in DOMAIN tasks :
        /\ tasks[i].pc = "returned" /\ tasks[i].result = "None"
        /\ tasks[i].slept = <<15, 30, 45, 60>>

\* the canvas rectangle <<x0, y0, x1, y1>> (x1, y1 exclusive) the paste of task
\* i wrote: the raster's extent at its grid position, clipped to the canvas
PasteRect(i) ==
    LET x == (tasks[i].x - args.tl_x) * 1000
        y == (tasks[i].y - args.tl_y) * 1000
        w == PastedTile(i).size[1]
        h == PastedTile(i).size[2]
        min(a, b) == IF a < b THEN a ELSE b
    IN  <<x, y, min(x + w, merged_image.size[1]), min(y + h, merged_image.size[2])>>

\* two rectangles share a pixel
Intersect(a, b) == a[1] < b[3] /\ b[1] < a[3] /\ a[2] < b[4] /\ b[2] < a[4]

\* the tasks whose raster has been pasted
Pasted == { i \in DOMAIN tasks : tasks[i].handled = "pasted" }

\* C14 as claimed -- the canvas, once allocated, has the size
\* (grid_width * 1000, grid_height * 1000) and keeps it, and the rectangles
\* written by the pastes of two different tiles never intersect, whatever the
\* dimensions of the fetched rasters.
C14_AsClaimed ==
    /\ merged_image # NoCanvas =>
          merged_image.size =
              IF variant = "main" THEN <<grid_size_x * 1000, grid_size_y * 1000>>
              ELSE <<GRID_SIZE * 1000, GRID_SIZE * 1000>>
    /\ \A i, j \in Pasted : i # j => ~Intersect(PasteRect(i), PasteRect(j))

\* C15 as claimed -- every raster that is pasted is, when it is pasted, 1000
\* wide and 1000 high and RGBA: a fetched raster of another size or mode has
\* been resized / converted before.
C15_AsClaimed ==
    \A i \in Pasted :
        /\ PastedTile(i).size = <<1000, 1000>>
        /\ PastedTile(i).mode = "RGBA"

\* the canvas after the pasted tiles among tasks 1..k were pasted in the order
\* of their grid position
RECURSIVE PasteInGridOrder(_)
PasteInGridOrder(k) ==
    IF k = 0 THEN NewCanvas(merged_image.size[1] \div TILE_SIZE,
                            merged_image.size[2] \div TILE_SIZE)
    ELSE IF k \in Pasted
         THEN Paste(PasteInGridOrder(k - 1), PastedTile(k),
                    (tasks[k].x - args.tl_x) * 1000, (tasks[k].y - args.tl_y) * 1000)
         ELSE PasteInGridOrder(k - 1)

\* C16 as claimed -- Order independence: the canvas is determined by which
\* tiles were pasted and their rasters, not by the order in which the fetches
\* completed: it always equals the canvas obtained by pasting the same rasters
\* in the order of their grid position, and the run ends in success or failure
\* according to the tiles' results alone.
C16_AsClaimed ==
    tasks # <<>> =>
        /\ merged_image = PasteInGridOrder(Len(tasks))
        /\ variant = "main" /\ pc \in {"crop", "scale", "save"} =>
              Pasted = DOMAIN tasks
        /\ variant = "main" /\ pc = "done" /\ ret = "False" => Pasted # DOMAIN tasks

\* a fetch that has not reached its terminal outcome
Unfinished(i) == tasks[i].pc \in {"queued", "io", "sleep"}

Failed == { i \in DOMAIN tasks : tasks[i].handled \in {"failed", "raised"} }

\* the counters agree with the outcomes handled so far: no update was lost
C18_State ==
    tasks # <<>> =>
        /\ successful_tiles = Cardinality(Pasted)
        /\ Len(failed_tiles) = Cardinality(Failed)

\* a step changes at most one task; a step of a fetch changes neither the
\* canvas nor failed_tiles nor successful_tiles, nor the tile the task is for;
\* those three change only in a step of the orchestrator that takes one
\* completed outcome
C18_Step ==
    tasks # <<>> /\ Len(tasks') = Len(tasks) =>
        LET changed == { i \in DOMAIN tasks : tasks'[i] # tasks[i] }
        IN  /\ Cardinality(changed) <= 1
            /\ \A i \in changed :
                  /\ tasks'[i].x = tasks[i].x /\ tasks'[i].y = tasks[i].y
                  /\ Unfinished(i) =>
                        /\ UNCHANGED <<merged_image, failed_tiles, successful_tiles>>
                        /\ tasks'[i].pc # "taken"
            /\ <<merged_image, failed_tiles, successful_tiles>>' #
                  <<merged_image, failed_tiles, successful_tiles>> =>
                  /\ \E i \in changed : tasks[i].pc = "returned" /\ tasks'[i].pc = "taken"
                  /\ successful_tiles' \in {successful_tiles, successful_tiles + 1}
                  /\ Len(failed_tiles') \in {Len(failed_tiles), Len(failed_tiles) + 1}

\* C18 -- No shared mutable state between fetch tasks: a step of a fetch task
\* changes only that task's own state; the canvas, failed_tiles and
\* successful_tiles are written only by the orchestrating thread, for one
\* completed outcome at a time, and no update to them is lost.
C18_NoSharedState == [](C18_State) /\ [][C18_Step]_vars

\* a tile was pasted and another reported while a third fetch is in flight
C18_Witness ==
    /\ variant = "main"
    /\ successful_tiles >= 1 /\ Len(failed_tiles) >= 1
    /\ \E i \in DOMAIN tasks : tasks[i].pc = "io"

\* C19 -- Termination: when every attempt and every sleep ends and the threads
\* are scheduled, every run reaches its final state, and no tile is attempted
\* more than retries times.
C19_Termination ==
    /\ <>(pc = "done")
    /\ [](\A i \in DOMAIN tasks : tasks[i].calls <= retries /\ tasks[i].attempt <= retries)

\* a run has ended after a tile exhausted its attempts and another was pasted
C19_Witness ==
    /\ pc = "done"
    /\ Failed # {} /\ Pasted # {}
    /\ \E i \in Failed : tasks[i].result = "None"

\* C20 as claimed -- the entry point reports success only if every tile was
\* fetched and save_image wrote the raster (returned a path).
C20_AsClaimed ==
    ret = "True" =>
        /\ \A i \in DOMAIN tasks : tasks[i].result = "image"
        /\ save_calls = 1
        /\ saved_path = "path"

\* a dated image file that lies in the folder of its date
Organized(e) ==
    e.name.ext \in ImageExts /\ extract_date_from_filename(e.name) = e.dir

\* every dated image file lies in the folder of its date
AllOrganized(files) ==
    \A e \in files :
        e.name.ext \in ImageExts /\ extract_date_from_filename(e.name) # "None" =>
            Organized(e)

\* C21 as claimed -- organize_tiles is non-destructive and idempotent: no file
\* is lost to a move onto an existing path, a dated file that lay in
\* output/<its date>/ when the run started keeps its path and name, and a run
\* on an organized directory ends with the same set of file paths.
C21_AsClaimed ==
    org_pc # "off" =>
        /\ { e.id : e \in fs } = { e.id : e \in fs_at_start }
        /\ Cardinality(Paths(fs)) = Cardinality(fs_at_start)
        /\ \A e \in fs_at_start : Organized(e) => e \in fs
        /\ org_pc = "done" /\ AllOrganized(fs_at_start) => Paths(fs) = Paths(fs_at_start)

====
